---- MODULE Spec2Model ----
(***************************************************************************)
(* release-it: the release pipeline (lib/tasks.js), the GitHub release     *)
(* client (lib/github-client.js) and the npm publish client (lib/npm.js)   *)
(* as one state machine.                                                   *)
(*                                                                         *)
(* Three specifications share the client actions:                          *)
(*   Spec        a whole run of the pipeline, runTasks(opts)               *)
(*   SpecGitHub  one GitHub client driven directly (release, uploadAssets) *)
(*   SpecNpm     one npm client driven directly (publish)                  *)
(***************************************************************************)
EXTENDS Integers, Sequences, FiniteSets, TLC

(***************************************************************************)
(* Bounds of the model.                                                    *)
(***************************************************************************)
\* files the assets glob can match in a client-level run and in a run of
\* SpecAssets
MaxFiles == 2
\* files the assets glob matches inside a pipeline run
MaxRunFiles == 1
\* uploads of earlier calls still in flight when the caller of a client-level
\* run makes a further call
MaxDetached == 1
\* one-time passcodes the operator is willing to enter for one publish
MaxOtpPrompts == 1
\* confirmations the operator declines in one run
MaxDeclines == 1

(***************************************************************************)
(* Values.                                                                 *)
(***************************************************************************)
Repos == {"src", "dist"}
GateNames == {"commit", "tag", "push", "release", "assets", "publish"}
Undefined == "undefined"

\* semantic versions: the numeric core and the pre-release identifiers
V(core, pre) == [core |-> core, pre |-> pre]
NoVersion == V(<<>>, <<>>)
LatestVersion == V(<<1, 0, 0>>, <<>>)

\* errors: type, HTTP status (0: none) and message text (a sequence of tokens)
Err(type, status, text) == [type |-> type, status |-> status, text |-> text]
NoErr == Err("none", 0, <<>>)

\* what the remote answers to one request: success, or an HttpError
HttpErrors ==
  { Err("HttpError", 400, <<"bad">>),
    Err("HttpError", 401, <<"auth">>),
    Err("HttpError", 404, <<"not", "\n", "\r", "found">>),
    Err("HttpError", 422, <<"invalid", "\n", "tag">>),
    Err("HttpError", 500, <<"oops">>),
    Err("HttpError", 503, <<"busy">>) }
Ok == Err("ok", 200, <<>>)
Responses == {Ok} \cup HttpErrors
\* the answers met inside a pipeline run: success, one error that is final and
\* one that is retried
RunResponses ==
  { Ok,
    Err("HttpError", 422, <<"invalid", "\n", "tag">>),
    Err("HttpError", 500, <<"oops">>) }

(***************************************************************************)
(* github-client.js, pure parts.                                           *)
(***************************************************************************)
\* (NoRetriesNeededWithout422: the list without 422)
NoRetriesNeededWithout422 == {400, 401, 404}
NO_RETRIES_NEEDED == {400, 401, 404, 422}
\* (ReleaseRetriesThree: one retry more)
ReleaseRetriesThree == 2 + 1
\* retry(..., { retries: 2 })
ReleaseRetries == 2
UploadRetriesThree == 2 + 1
UploadRetries == 2

IsNewline(t) == t \in {"\n", "\r"}

\* message.replace(/[\n\r]+/g, ' '): every run of line breaks becomes one blank
RECURSIVE ReplaceNewlines(_)
ReplaceNewlines(text) ==
  IF text = <<>> THEN <<>>
  ELSE IF IsNewline(Head(text))
       THEN IF Len(text) > 1 /\ IsNewline(text[2])
            THEN ReplaceNewlines(Tail(text))
            ELSE <<" ">> \o ReplaceNewlines(Tail(text))
       ELSE <<Head(text)>> \o ReplaceNewlines(Tail(text))

\* parseErrorMessage(err): `${status} (${message})` with the line breaks replaced
parseErrorMessage(e) == [status |-> e.status, text |-> ReplaceNewlines(e.text)]

\* new GithubClientError(msg)
GithubClientError(msg) == Err("GithubClientError", msg.status, msg.text)

\* retry's mainError(): the error whose message occurred most often among the
\* failed attempts, the latest one when several messages are as frequent
RECURSIVE MainErrorFrom(_, _, _, _)
MainErrorFrom(errs, i, main, mainCount) ==
  IF i > Len(errs) THEN main
  ELSE LET count == Cardinality({j \in 1..i : errs[j].text = errs[i].text})
       IN IF count >= mainCount
          THEN MainErrorFrom(errs, i + 1, errs[i], count)
          ELSE MainErrorFrom(errs, i + 1, main, mainCount)

MainError(errs) == MainErrorFrom(errs, 1, NoErr, 0)

\* One attempt of retry(fn, {retries}) around a request: `op` is the retry
\* operation so far, `resp` what the request returned.
\*   success                  -> the operation resolves
\*   status in NO_RETRIES     -> bail(new GithubClientError(msg)): rejects at once
\*   any other failure        -> thrown: retried while a retry is left, else the
\*                               operation rejects with mainError()
\* n counts the requests made, errs holds the errors handed to the retry.
IdleOp == [st |-> "idle", n |-> 0, errs |-> <<>>, last |-> Ok, out |-> NoErr]
StartOp == [IdleOp EXCEPT !.st = "pending"]

RetryAttempt(op, resp, retries) ==
  LET n == op.n + 1 IN
  IF resp = Ok
  THEN [op EXCEPT !.st = "resolved", !.n = n, !.last = resp]
  ELSE IF resp.status \in NO_RETRIES_NEEDED
  THEN [op EXCEPT !.st = "rejected", !.n = n, !.last = resp,
                  !.out = GithubClientError(parseErrorMessage(resp))]
  ELSE LET errs == Append(op.errs, resp) IN
       IF Len(errs) > retries
       THEN [op EXCEPT !.st = "rejected", !.n = n, !.last = resp, !.errs = errs,
                       !.out = MainError(errs)]
       ELSE [op EXCEPT !.n = n, !.last = resp, !.errs = errs]

(***************************************************************************)
(* npm.js, pure parts.                                                     *)
(***************************************************************************)
DEFAULT_TAG == "latest"

\* semver.prerelease(version): the pre-release identifiers, none for a release
Prerelease(ver) == ver.pre

\* getTag({ tag = DEFAULT_TAG, version, isPreRelease })
getTag(tag, ver, isPreRelease) ==
  LET t == IF tag = Undefined THEN DEFAULT_TAG ELSE tag IN
  IF ~isPreRelease \/ ver = NoVersion
  THEN t
  ELSE IF Prerelease(ver) = <<>> THEN t ELSE Prerelease(ver)[1]

\* what `npm publish` can fail with; /one-time pass/.test(err) picks the first
NpmErrors ==
  { Err("NpmError", 0, <<"EOTP", "one-time pass", "word required">>),
    Err("NpmError", 0, <<"E403", "forbidden">>) }

IsOtpError(e) == \E i \in 1..Len(e.text) : e.text[i] = "one-time pass"

(***************************************************************************)
(* State.                                                                  *)
(***************************************************************************)
VARIABLES
  isInteractive,   \* config.isInteractive
  isDryRun,        \* config.isDryRun
  isCollectMetrics, \* config.isCollectMetrics
  distRepo,        \* options.dist.repo is set
  gates,           \* per repo: git.commit, git.tag, git.push, github.release,
                   \* github.assets (a glob is configured), npm.publish
  scripts,         \* per repo: the beforeStage and afterRelease commands of
                   \* options.scripts ("src") and options.dist.scripts ("dist")
  pc,              \* the pipeline's position: the stage about to run
  grp,             \* the repo the release step group is running for
  vVersion,        \* v.version of the Version instance
  version,         \* const version     (tasks.js:106)
  isPreRelease,    \* const isPreRelease (tasks.js:106)
  isLateChangeLog, \* const isLateChangeLog (tasks.js:85)
  changelog,       \* let changelog: what getChangelog() returned
  guardArmed,      \* the SIGINT/exit handlers are registered
  reverted,        \* a handler has called gitClient.reset(pkgFiles)
  cwd,             \* the shell's directory stack (pushd/popd)
  stageDirExists,  \* the dist staging directory exists on disk
  err,             \* the error the run was rejected with
  failedAt,        \* the stage that raised it
  thrown,          \* the error that stage threw to the catch of runTasks
  logged,          \* the number of log.error calls of that catch
  events,          \* the metrics events built and handed to got
  ran,             \* <<repo, operation>>: the operations performed so far
  failedOps,       \* <<repo, operation>>: those of them that failed
  hooks,           \* <<repo, command>>: the beforeStage and afterRelease
                   \* commands handed to run(), in order, with the repo at work
  completed,       \* the repos whose release step group ran to its end, in order
  declined,        \* confirmations the operator has declined
  gh,              \* per GitHub client: isReleased, releaseUrl, uploadUrl
  npmc,            \* per npm client: isPublished
  awaiting,        \* the client call the caller is suspended on
  ret,             \* how that call settled
  rel,             \* the createRelease retry operation
  up,              \* the uploadAsset retry operations of one uploadAssets()
  detached,        \* the uploads still in flight of calls whose caller has
                   \* resumed: the client, the url captured and the retry operation
  pub              \* the publish call and its one-time-passcode loop

configVars == <<isInteractive, isDryRun, isCollectMetrics, distRepo, gates, scripts>>
ctlVars == <<pc, err, failedAt, thrown, logged, events>>
verVars == <<vVersion, version, isPreRelease, isLateChangeLog, changelog>>
envVars == <<guardArmed, reverted, cwd, stageDirExists>>
grpVars == <<grp, completed, declined>>
runVars == <<ctlVars, verVars, envVars, grpVars>>
histVars == <<ran, failedOps, hooks>>
clientVars == <<gh, npmc, awaiting, ret, rel, up, detached, pub>>
vars == <<configVars, runVars, histVars, clientVars>>

NoUrl == <<>>
NoCall == [op |-> "none", client |-> "src"]
Call(op, c) == [op |-> op, client |-> c]

NoRet == [st |-> "none", val |-> FALSE, err |-> NoErr]
Resolved(val) == [st |-> "resolved", val |-> val, err |-> NoErr]
Rejected(e) == [st |-> "rejected", val |-> FALSE, err |-> e]

GhInit == [isReleased |-> FALSE, releaseUrl |-> NoUrl, uploadUrl |-> NoUrl,
           version |-> NoVersion]
NpmInit == [isPublished |-> FALSE]

RelIdle == [op |-> IdleOp, client |-> "src", version |-> NoVersion, pre |-> FALSE]
\* glob: globby(assets) has not settled yet; files: the files it matched
UpIdle == [client |-> "src", url |-> NoUrl, settled |-> TRUE, ops |-> <<>>,
           glob |-> FALSE, files |-> 0]
PubIdle == [st |-> "idle", client |-> "src", tag |-> Undefined,
            resolvedTag |-> Undefined, version |-> NoVersion, pre |-> FALSE,
            otp |-> Undefined, otpPrompt |-> FALSE, calls |-> 0, prompts |-> 0,
            last |-> NoErr]

\* what createRelease answers with: response.data of the release made for
\* version ver in the client's repository
ReleaseData(c, ver) ==
  [html_url |-> <<"html_url", c, ver>>, upload_url |-> <<"upload_url", c, ver>>]

Quiescent ==
  /\ rel.op.st # "pending"
  /\ \A f \in DOMAIN up.ops : up.ops[f].st # "pending"
  /\ pub.st \notin {"running", "prompt"}

\* the uploads of the call that have not settled, each with the client and the
\* url its uploadAsset() captured
InFlight(u) ==
  SelectSeq([f \in DOMAIN u.ops |-> [client |-> u.client, url |-> u.url, op |-> u.ops[f]]],
            LAMBDA d : d.op.st = "pending")

\* an await returns to its caller: the promise is consumed, and the finished
\* call's own state (the closure of its retry operations) is gone; the uploads
\* a rejected Promise.all left in flight go on beside the caller
Returned ==
  /\ awaiting' = NoCall
  /\ ret' = NoRet
  /\ rel' = RelIdle
  /\ pub' = PubIdle
  /\ up' = UpIdle
  /\ detached' = detached \o InFlight(up)

(***************************************************************************)
(* GitHub client (github-client.js).                                       *)
(***************************************************************************)
\* release({ version, isPreRelease, changelog }): dry-run returns noop, else the
\* retry operation around createRelease starts
GitHubRelease(c, ver, pre) ==
  /\ awaiting' = Call("release", c)
  /\ IF isDryRun
     THEN /\ ret' = Resolved(FALSE)
          /\ rel' = rel
     ELSE /\ ret' = NoRet
          /\ rel' = [op |-> StartOp, client |-> c, version |-> ver, pre |-> pre]
  /\ UNCHANGED <<gh, npmc, up, detached, pub>>

\* the client's state after a createRelease response: this.version,
\* this.releaseUrl = html_url, this.uploadUrl = upload_url, this.isReleased = true
Released(data, ver) ==
  [isReleased |-> TRUE, releaseUrl |-> data.html_url, uploadUrl |-> data.upload_url,
   version |-> ver]

\* one createRelease request of the retry operation, and what follows from it
ReleaseAttempt(responses) ==
  /\ rel.op.st = "pending"
  /\ \E resp \in responses :
       LET op == RetryAttempt(rel.op, resp, ReleaseRetries)
           c == rel.client
       IN /\ rel' = [rel EXCEPT !.op = op]
          /\ gh' = IF op.st = "resolved"
                   THEN [gh EXCEPT ![c] = Released(ReleaseData(c, rel.version), rel.version)]
                   ELSE gh
          /\ ret' = CASE op.st = "resolved" -> Resolved(TRUE)
                      [] op.st = "rejected" -> Rejected(op.out)
                      [] OTHER -> ret
          /\ ran' = ran \cup {<<c, "createRelease">>}
          /\ hooks' = hooks
          /\ failedOps' = IF op.st = "rejected"
                          THEN failedOps \cup {<<c, "createRelease">>}
                          ELSE failedOps
  /\ UNCHANGED <<configVars, runVars, npmc, awaiting, up, detached, pub>>

\* what fs.statSync(filePath) throws, and what globby(assets) rejects with
StatError == Err("Error", 0, <<"ENOENT">>)
GlobbyError == Err("TypeError", 0, <<"Patterns must be a string or an array of strings">>)

\* uploadAssets(): noop without an assets glob or in dry-run; else the promise
\* of globby(assets).then(...), with the glob still to settle
GitHubUploadAssets(c) ==
  /\ awaiting' = Call("uploadAssets", c)
  /\ IF ~gates[c].assets \/ isDryRun
     THEN /\ ret' = Resolved(FALSE)
          /\ up' = up
     ELSE /\ ret' = NoRet
          /\ up' = [UpIdle EXCEPT !.client = c, !.settled = FALSE, !.glob = TRUE]
  /\ UNCHANGED <<gh, npmc, rel, detached, pub>>

\* globby(assets) settles. Rejected: so is the call. Resolved with k files:
\* the callback calls uploadAsset(filePath) for one file after the other, each
\* reading this.uploadUrl and the file's size and starting its retry
\* operation, and hands the promises to Promise.all. When fs.statSync throws
\* for a file the callback throws: the call is rejected with that error, the
\* uploads of the files before it (`started` of them) are in flight and no
\* upload starts for the file or for those after it.
Globby(minFiles, maxFiles) ==
  /\ up.glob
  /\ \/ \E k \in minFiles..maxFiles, started \in 0..maxFiles :
          /\ started <= k
          /\ up' = [up EXCEPT !.glob = FALSE, !.files = k,
                              !.url = IF k > 0 THEN gh[up.client].uploadUrl ELSE NoUrl,
                              !.ops = [f \in 1..started |-> StartOp],
                              !.settled = (k = 0 \/ started < k)]
          /\ ret' = IF started < k THEN Rejected(StatError)
                    ELSE IF k = 0 THEN Resolved(TRUE)
                    ELSE NoRet
     \/ /\ up' = [up EXCEPT !.glob = FALSE, !.settled = TRUE]
        /\ ret' = Rejected(GlobbyError)
  /\ UNCHANGED <<configVars, runVars, histVars, gh, npmc, awaiting, rel, detached, pub>>

\* Promise.all over the uploads: rejects with the first rejection, resolves once
\* every upload has resolved
\* (PromiseRace: settles with the upload that settles first)
PromiseRace(ops, f) ==
  IF ops[f].st = "rejected" THEN Rejected(ops[f].out)
  ELSE IF ops[f].st = "resolved" THEN Resolved(TRUE)
  ELSE NoRet
PromiseAll(ops, f) ==
  IF ops[f].st = "rejected" THEN Rejected(ops[f].out)
  ELSE IF \A g \in DOMAIN ops : ops[g].st = "resolved" THEN Resolved(TRUE)
  ELSE NoRet

\* uploadAsset(filePath), called by itself: one upload starts whatever
\* isDryRun and the assets glob are, with the url the client holds; when
\* fs.statSync throws, the call throws and no upload starts
GitHubUploadAsset(c) ==
  /\ awaiting' = Call("uploadAsset", c)
  /\ \/ /\ up' = [UpIdle EXCEPT !.client = c, !.url = gh[c].uploadUrl,
                                !.settled = FALSE, !.ops = <<StartOp>>]
        /\ ret' = NoRet
     \/ /\ up' = [UpIdle EXCEPT !.client = c, !.url = gh[c].uploadUrl]
        /\ ret' = Rejected(StatError)
  /\ UNCHANGED <<gh, npmc, rel, detached, pub>>

\* what the promise of one retry operation has settled with
Settled(op) ==
  IF op.st = "rejected" THEN Rejected(op.out)
  ELSE IF op.st = "resolved" THEN Resolved(TRUE)
  ELSE NoRet

Remove(seq, i) == SubSeq(seq, 1, i - 1) \o SubSeq(seq, i + 1, Len(seq))

\* one uploadReleaseAsset request: of file f's retry operation in the call
\* being awaited, or of the f-th upload left in flight by an earlier call,
\* which settles beside the caller and is gone when it has
UploadAttempt(f, responses) ==
  /\ \E resp \in responses :
       \/ /\ f \in DOMAIN up.ops
          /\ up.ops[f].st = "pending"
          /\ LET op == RetryAttempt(up.ops[f], resp, UploadRetries)
                 ops == [up.ops EXCEPT ![f] = op]
                 all == IF awaiting.op = "uploadAsset" THEN Settled(op)
                        ELSE PromiseAll(ops, f)
                 settles == ~up.settled /\ all.st # "none"
             IN /\ up' = [up EXCEPT !.ops = ops, !.settled = up.settled \/ settles]
                /\ ret' = IF settles THEN all ELSE ret
                /\ detached' = detached
                /\ ran' = ran \cup {<<up.client, "uploadAsset">>}
                /\ hooks' = hooks
                /\ failedOps' = IF op.st = "rejected"
                                THEN failedOps \cup {<<up.client, "uploadAsset">>}
                                ELSE failedOps
       \/ /\ f \in DOMAIN detached
          /\ LET d == detached[f]
                 op == RetryAttempt(d.op, resp, UploadRetries)
             IN /\ detached' = IF op.st = "pending"
                               THEN [detached EXCEPT ![f].op = op]
                               ELSE Remove(detached, f)
                /\ UNCHANGED <<up, ret>>
                /\ ran' = ran \cup {<<d.client, "uploadAsset">>}
                /\ hooks' = hooks
                /\ failedOps' = IF op.st = "rejected"
                                THEN failedOps \cup {<<d.client, "uploadAsset">>}
                                ELSE failedOps
  /\ UNCHANGED <<configVars, runVars, gh, npmc, awaiting, rel, pub>>


(***************************************************************************)
(* npm client (npm.js).                                                    *)
(***************************************************************************)
\* the codes the operator enters at the prompt, and one set in the options
OtpCodes == {"123456"}
OptionOtps == {Undefined, "654321"}

\* publish({ tag = options.tag, version, isPreRelease, otp = options.otp, otpPrompt })
NpmPublish(c, tag, ver, pre, otp, otpPrompt) ==
  /\ awaiting' = Call("publish", c)
  /\ ret' = NoRet
  /\ pub' = [st |-> "running", client |-> c, tag |-> tag,
             resolvedTag |-> getTag(tag, ver, pre), version |-> ver, pre |-> pre,
             otp |-> otp, otpPrompt |-> otpPrompt, calls |-> 0, prompts |-> 0,
             last |-> NoErr]
  /\ UNCHANGED <<gh, npmc, rel, up, detached>>

\* the catch of publish: a one-time-passcode failure goes to the prompt when the
\* client is interactive and was given one; every other failure is thrown
\* (PublishCatchAlwaysPrompts: without the test of options.isInteractive)
PublishCatchAlwaysPrompts(e, interactive, otpPrompt) ==
  IF IsOtpError(e) /\ otpPrompt THEN "prompt" ELSE "rejected"
PublishCatch(e, interactive, otpPrompt) ==
  IF IsOtpError(e) /\ interactive /\ otpPrompt THEN "prompt" ELSE "rejected"

\* shell.run(`npm publish ... --tag ${resolvedTag} ${otpArg} ${dryRunArg}`) settles
PublishRun ==
  /\ pub.st = "running"
  /\ \E out \in {Ok} \cup NpmErrors :
       LET c == pub.client
           st == IF out = Ok THEN "resolved"
                 ELSE PublishCatch(out, isInteractive, pub.otpPrompt)
       IN /\ pub' = [pub EXCEPT !.st = st, !.calls = pub.calls + 1, !.last = out]
          /\ npmc' = IF out = Ok THEN [npmc EXCEPT ![c].isPublished = TRUE] ELSE npmc
          /\ ret' = CASE st = "resolved" -> Resolved(FALSE)
                      [] st = "rejected" -> Rejected(out)
                      [] OTHER -> ret
          /\ ran' = ran \cup {<<c, "publish">>}
          /\ hooks' = hooks
          /\ failedOps' = IF st = "rejected"
                          THEN failedOps \cup {<<c, "publish">>}
                          ELSE failedOps
  /\ UNCHANGED <<configVars, runVars, gh, awaiting, rel, up, detached>>

\* otpPrompt(otp => this.publish({ tag, version, isPreRelease, otp, otpPrompt })):
\* the operator enters a code and publish is called again with it
PublishOtpPrompt ==
  /\ pub.st = "prompt"
  /\ pub.prompts < MaxOtpPrompts
  /\ \E code \in OtpCodes :
       pub' = [pub EXCEPT !.st = "running", !.otp = code,
                          !.prompts = pub.prompts + 1,
                          !.resolvedTag = getTag(pub.tag, pub.version, pub.pre)]
  /\ UNCHANGED <<configVars, runVars, histVars, gh, npmc, awaiting, ret, rel, up, detached>>

(***************************************************************************)
(* Metrics (metrics.js).                                                   *)
(***************************************************************************)
\* a thrown value that is no Error object has no message property
NoMessage == <<Undefined>>
HasMessage(e) == e.text # NoMessage

\* err.message.split(EOL)[0]
EOL == "\n"
RECURSIVE FirstLine(_)
FirstLine(text) ==
  IF text = <<>> \/ Head(text) = EOL THEN <<>>
  ELSE <<Head(text)>> \o FirstLine(Tail(text))

\* trackEvent(action, config) = send({ t: 'event', ea: action, ...payload })
TrackEvent(action) == <<"event", <<action>>>>

\* trackException(err) = send({ t: 'exception', exd: err.message.split(EOL)[0] }):
\* reading split of an undefined message throws a TypeError before send is
\* reached
TypeError == Err("TypeError", 0, <<"cannot read property split of undefined">>)
TrackException(e) ==
  IF HasMessage(e)
  THEN [threw |-> NoErr, sent |-> {<<"exception", FirstLine(e.text)>>}]
  ELSE [threw |-> TypeError, sent |-> {}]

\* send(payload): got(...).then(...).catch(debug): whether the request succeeds
\* or fails, nothing comes back to the caller
Send(payload, delivered) == payload

(***************************************************************************)
(* Initial values shared by the specifications.                            *)
(***************************************************************************)
AllOff == [g \in GateNames |-> FALSE]

\* the hook commands a configuration may hold: each repo's scripts either with
\* a beforeStage and an afterRelease command of its own, or with neither
NoScripts == [beforeStage |-> Undefined, afterRelease |-> Undefined]
OwnScripts ==
  [r \in Repos |->
     IF r = "src"
     THEN [beforeStage |-> "npm run build", afterRelease |-> "npm run notify"]
     ELSE [beforeStage |-> "npm run build:dist", afterRelease |-> "npm run notify:dist"]]
ScriptConfigs ==
  {[r \in Repos |-> IF r \in S THEN OwnScripts[r] ELSE NoScripts] : S \in SUBSET Repos}

InitRun ==
  /\ grp = "src"
  /\ vVersion = NoVersion
  /\ version = NoVersion
  /\ isPreRelease = FALSE
  /\ isLateChangeLog = FALSE
  /\ changelog = Undefined
  /\ guardArmed = FALSE
  /\ reverted = FALSE
  /\ cwd = <<>>
  /\ stageDirExists = FALSE
  /\ err = NoErr
  /\ failedAt = "none"
  /\ thrown = NoErr
  /\ logged = 0
  /\ events = IF isCollectMetrics THEN {TrackEvent("start")} ELSE {}
  /\ ran = {}
  /\ failedOps = {}
  /\ hooks = <<>>
  /\ completed = <<>>
  /\ declined = 0

InitClients ==
  /\ gh = [c \in Repos |-> GhInit]
  /\ npmc = [c \in Repos |-> NpmInit]
  /\ awaiting = NoCall
  /\ ret = NoRet
  /\ rel = RelIdle
  /\ up = UpIdle
  /\ detached = <<>>
  /\ pub = PubIdle

(***************************************************************************)
(* SpecGitHub: one GitHub client, its methods called one after the other.   *)
(***************************************************************************)
UnitVersions == {V(<<1, 0, 1>>, <<>>), V(<<2, 0, 0>>, <<"beta", "3">>)}

InitGitHub ==
  /\ pc = "unit"
  /\ isInteractive = FALSE
  /\ isDryRun \in BOOLEAN
  /\ isCollectMetrics = FALSE
  /\ scripts = OwnScripts
  /\ distRepo = FALSE
  /\ \E a \in BOOLEAN : gates = [r \in Repos |-> [AllOff EXCEPT !.assets = a]]
  /\ InitRun
  /\ InitClients

\* The client accepts a call whatever is still in flight from earlier calls;
\* MaxDetached caps how many such uploads there are when a further call is made.
UnitRelease ==
  /\ pc = "unit"
  /\ awaiting = NoCall
  /\ Len(detached) <= MaxDetached
  /\ \E ver \in UnitVersions : GitHubRelease("src", ver, ver.pre # <<>>)
  /\ UNCHANGED <<configVars, runVars, histVars>>

UnitUploadAssets ==
  /\ pc = "unit"
  /\ awaiting = NoCall
  /\ Len(detached) <= MaxDetached
  /\ GitHubUploadAssets("src")
  /\ UNCHANGED <<configVars, runVars, histVars>>

UnitUploadAsset ==
  /\ pc = "unit"
  /\ awaiting = NoCall
  /\ Len(detached) <= MaxDetached
  /\ GitHubUploadAsset("src")
  /\ UNCHANGED <<configVars, runVars, histVars>>

\* the caller's await returns as soon as the call has settled: after a
\* rejected Promise.all the other uploads may still be in flight
UnitReturn ==
  /\ pc = "unit"
  /\ awaiting # NoCall
  /\ ret.st # "none"
  /\ Returned
  /\ UNCHANGED <<configVars, runVars, histVars, gh, npmc>>

NextGitHub ==
  \/ UnitRelease
  \/ UnitUploadAssets
  \/ UnitUploadAsset
  \/ UnitReturn
  \/ ReleaseAttempt(Responses)
  \/ Globby(0, MaxFiles)
  \/ \E f \in 1..(MaxFiles + MaxDetached) : UploadAttempt(f, Responses)

SpecGitHub == InitGitHub /\ [][NextGitHub]_vars

(***************************************************************************)
(* SpecNpm: one npm client, publish called with any arguments.             *)
(***************************************************************************)
Tags == {Undefined, "next"}

InitNpm ==
  /\ pc = "unit"
  /\ isInteractive \in BOOLEAN
  /\ isDryRun \in BOOLEAN
  /\ isCollectMetrics = FALSE
  /\ scripts = OwnScripts
  /\ distRepo = FALSE
  /\ gates = [r \in Repos |-> AllOff]
  /\ InitRun
  /\ InitClients

UnitPublish ==
  /\ pc = "unit"
  /\ awaiting = NoCall
  /\ Quiescent
  /\ \E tag \in Tags, ver \in UnitVersions \cup {NoVersion}, pre \in BOOLEAN,
        otp \in OptionOtps, otpPrompt \in BOOLEAN :
       NpmPublish("src", tag, ver, pre, otp, otpPrompt)
  /\ UNCHANGED <<configVars, runVars, histVars>>

NextNpm ==
  \/ UnitPublish
  \/ UnitReturn
  \/ PublishRun
  \/ PublishOtpPrompt

SpecNpm == InitNpm /\ [][NextNpm]_vars


(***************************************************************************)
(* Collaborators of the pipeline whose code is not part of the sources:    *)
(* Version (lib/version.js), Spinner (lib/spinner.js), prompt              *)
(* (lib/prompt.js), Git (lib/git.js). Modelled from the specification.     *)
(***************************************************************************)
\* options.increment: a keyword, a literal version, an unknown token, nothing,
\* or a recommendation placeholder
Increments == {"patch", "2.0.0-beta.3", "mini", "", "conventional:angular"}
\* what the operator can pick from the increment list ("": none of them)
ListAnswers == {"patch", ""}
\* what the operator can type at the version prompt
VersionAnswers == {"2.0.0-beta.3", "mini", ""}

BadVersion == V(<<0>>, <<>>)
\* semver.valid(version)
IsValid(ver) == Len(ver.core) = 3

\* a literal version string read as a version
ParseVersion(str) ==
  CASE str = "2.0.0-beta.3" -> V(<<2, 0, 0>>, <<"beta", "3">>)
    [] str = "" -> NoVersion
    [] OTHER -> BadVersion

\* semver.inc(version, increment) for the release keywords
Inc(ver, keyword) ==
  CASE keyword = "patch" -> V(<<ver.core[1], ver.core[2], ver.core[3] + 1>>, <<>>)
    [] keyword = "minor" -> V(<<ver.core[1], ver.core[2] + 1, 0>>, <<>>)
    [] keyword = "major" -> V(<<ver.core[1] + 1, 0, 0>>, <<>>)

\* v.recs.isRecommendation(increment)
IsRecommendation(inc) == inc = "conventional:angular"

\* v.bump({ increment }): the next version, NoVersion when none is chosen,
\* BadVersion for a token that is neither a keyword nor a version (it throws)
VersionBump(latest, inc) ==
  IF inc = "" THEN NoVersion
  ELSE IF IsRecommendation(inc) THEN Inc(latest, "patch")
  ELSE IF inc \in {"patch", "minor", "major"} THEN Inc(latest, inc)
  ELSE ParseVersion(inc)

\* v.details.isPreRelease
IsPreReleaseVersion(ver) == Prerelease(ver) # <<>>

\* s.show(shouldRun, task, label): the task runs when shouldRun holds
Show(shouldRun) == shouldRun

\* prompt(shouldPrompt, context, name, task): a confirmation is asked when
\* shouldPrompt holds, and the task runs when the operator confirms
Prompt(shouldPrompt, answer) == shouldPrompt /\ answer

GitErrors ==
  { Err("GitRepoError", 0, <<"Not a git repository">>),
    Err("GitRemoteUrlError", 0, <<"Could not get remote Git url">>),
    Err("GitCleanWorkingDirError", 0, <<"Working dir must be clean">>),
    Err("GitUpstreamError", 0, <<"No upstream configured for current branch">>) }
\* what init() rejects with: the repository and the remote url errors
InitErrors == {e \in GitErrors : e.type \in {"GitRepoError", "GitRemoteUrlError"}}
DistRepoStageDirError == Err("DistRepoStageDirError", 0, <<"stageDir">>)
InvalidVersionError == Err("InvalidVersionError", 0, <<"invalid version was provided">>)
GithubTokenError == Err("GithubTokenError", 0, <<"tokenRef">>)
StepError == Err("Error", 0, <<"command failed">>)
\* what a failing step rejects with: an Error, or a value that is no Error
StepRejection == Err("string", 0, NoMessage)
StepErrors == {StepError, StepRejection}

\* GitHub.validate(): a release without a token is refused
\* (GitHubValidateIgnoresRelease: without the test of options.release)
GitHubValidateIgnoresRelease(release, hasToken) ==
  IF ~hasToken THEN GithubTokenError ELSE NoErr
GitHubValidate(release, hasToken) ==
  IF ~release THEN NoErr
  ELSE IF ~hasToken THEN GithubTokenError
  ELSE NoErr

(***************************************************************************)
(* The pipeline, runTasks(opts) (tasks.js).                                *)
(***************************************************************************)
\* a stage ends: the next one follows, or its error is thrown to the catch of
\* runTasks, which logs it and throws it again: the run is rejected with it
\* catch (err) { config.isCollectMetrics && trackException(err);
\*               log.error(err.message || err); debug(err); throw err; }
Goto(p) == pc' = p /\ UNCHANGED <<err, failedAt, thrown, logged, events>>
Throw(p, e) ==
  /\ pc' = "rejected"
  /\ failedAt' = p
  /\ thrown' = e
  /\ LET t == IF isCollectMetrics THEN TrackException(e)
              ELSE [threw |-> NoErr, sent |-> {}]
     IN IF t.threw = NoErr
        THEN /\ \E delivered \in (IF t.sent = {} THEN {FALSE} ELSE BOOLEAN) :
                  events' = events \cup Send(t.sent, delivered)
             /\ logged' = logged + 1
             /\ err' = e
        ELSE /\ events' = events
             /\ logged' = logged
             /\ err' = t.threw

\* the stage at p performs operation op on repo r, which succeeds or fails
Perform(p, r, op, next) ==
  /\ ran' = ran \cup {<<r, op>>}
  /\ hooks' = hooks
  /\ \/ Goto(next) /\ failedOps' = failedOps
     \/ \E e \in StepErrors :
          Throw(p, e) /\ failedOps' = failedOps \cup {<<r, op>>}

Skip(next) == Goto(next) /\ UNCHANGED histVars

\* s.show(script, () => run(script), script) with a command read from the
\* configuration: the command is handed to run() while repo r is at work
RunScript(p, r, script, next) ==
  IF Show(script # Undefined)
  THEN /\ ran' = ran \cup {<<r, "hook">>}
       /\ hooks' = Append(hooks, <<r, script>>)
       /\ \/ Goto(next) /\ failedOps' = failedOps
          \/ \E e \in StepErrors :
               Throw(p, e) /\ failedOps' = failedOps \cup {<<r, "hook">>}
  ELSE Skip(next)

\* s.show(script, () => run(script), script): a configured hook command runs
Hook(p, r, next) ==
  \E configured \in BOOLEAN :
    IF Show(configured) THEN Perform(p, r, "hook", next) ELSE Skip(next)

\* whether a gated sub-step runs: s.show(gate, task) when non-interactive,
\* prompt(gate, context, name, task) when interactive
\* (RunsAsksAlways: the confirmation is asked whatever the gate)
RunsAsksAlways(gate, answer) ==
  IF isInteractive THEN Prompt(TRUE, answer) ELSE Show(gate)
Runs(gate, answer) == IF isInteractive THEN Prompt(gate, answer) ELSE Show(gate)

\* the operator's answers to a confirmation, and the count of the declined ones
Answers == IF declined < MaxDeclines THEN BOOLEAN ELSE {TRUE}
Declined(gate, answer) ==
  IF isInteractive /\ gate /\ ~answer THEN declined + 1 ELSE declined

\* the statements of runTasks up to the version resolution, in order
\* (PreambleHookFirst: the before-start hook ahead of the token check)
PreambleHookFirst ==
  <<"init", "validateStageDir", "beforeStart", "ghValidate", "resolve">>
Preamble == <<"init", "validateStageDir", "ghValidate", "beforeStart", "resolve">>
After(p) == Preamble[(CHOOSE i \in 1..Len(Preamble) - 1 : Preamble[i] = p) + 1]

\* await gitClient.init(); await gitClient.validate()
GitInit ==
  /\ pc = "init"
  /\ \E e \in {NoErr} \cup GitErrors :
       IF e = NoErr THEN Goto(After("init")) ELSE Throw("init", e)
  /\ UNCHANGED <<configVars, verVars, envVars, grpVars, histVars, clientVars>>

\* gitDistClient.validateStageDir(dist.stageDir)
ValidateStageDir ==
  /\ pc = "validateStageDir"
  /\ \E ok \in BOOLEAN :
       IF ok THEN Goto(After("validateStageDir"))
       ELSE Throw("validateStageDir", DistRepoStageDirError)
  /\ UNCHANGED <<configVars, verVars, envVars, grpVars, histVars, clientVars>>

\* ghClient.validate(); ghDistClient.validate()
GhValidate ==
  /\ pc = "ghValidate"
  /\ \E srcToken \in BOOLEAN, distToken \in BOOLEAN :
       LET e1 == GitHubValidate(gates["src"].release, srcToken)
           e2 == GitHubValidate(gates["dist"].release, distToken)
       IN IF e1 # NoErr THEN Throw("ghValidate", e1)
          ELSE IF e2 # NoErr THEN Throw("ghValidate", e2)
          ELSE Goto(After("ghValidate"))
  /\ UNCHANGED <<configVars, verVars, envVars, grpVars, histVars, clientVars>>

BeforeStart ==
  /\ pc = "beforeStart"
  /\ Hook("beforeStart", "src", After("beforeStart"))
  /\ UNCHANGED <<configVars, verVars, envVars, grpVars, clientVars>>

PcAfterResolve(late) == IF late THEN "prompt" ELSE "changelogEarly"

\* new Version(...); await v.bump({ increment, preRelease }); isLateChangeLog
ResolveVersion ==
  /\ pc = "resolve"
  /\ \E inc \in Increments :
       LET ver == VersionBump(LatestVersion, inc) IN
       IF ver = BadVersion
       THEN /\ Throw("resolve", InvalidVersionError)
            /\ UNCHANGED <<vVersion, isLateChangeLog>>
       ELSE /\ vVersion' = ver
            /\ isLateChangeLog' = IsRecommendation(inc)
            /\ Goto(PcAfterResolve(IsRecommendation(inc)))
  /\ UNCHANGED <<configVars, version, isPreRelease, changelog, envVars, grpVars,
                 histVars, clientVars>>

\* what gitClient.getChangelog(scripts.changelog) resolves with: the text of
\* the command's output, empty when there is none
Changelogs == {"* Second commit (1a2b3c4)", ""}

\* const getChangelog = async () => { ... }: the changelog command runs; an
\* empty changelog is logged with log.warn and returned like any other
\* (GetChangelogThrowsOnEmpty: an empty changelog is thrown as an error)
GetChangelogThrowsOnEmpty(p, next) ==
  /\ ran' = ran \cup {<<"src", "changelog">>}
  /\ hooks' = hooks
  /\ \/ \E text \in Changelogs :
          IF text = ""
          THEN /\ Throw(p, StepError)
               /\ changelog' = changelog
               /\ failedOps' = failedOps
          ELSE /\ changelog' = text
               /\ Goto(next)
               /\ failedOps' = failedOps
     \/ \E e \in StepErrors :
          /\ Throw(p, e)
          /\ changelog' = changelog
          /\ failedOps' = failedOps \cup {<<"src", "changelog">>}
GetChangelog(p, next) ==
  /\ ran' = ran \cup {<<"src", "changelog">>}
  /\ hooks' = hooks
  /\ \/ \E text \in Changelogs :
          /\ changelog' = text
          /\ Goto(next)
          /\ failedOps' = failedOps
     \/ \E e \in StepErrors :
          /\ Throw(p, e)
          /\ changelog' = changelog
          /\ failedOps' = failedOps \cup {<<"src", "changelog">>}

\* if (!isLateChangeLog) changelog = await getChangelog()
ChangelogEarly ==
  /\ pc = "changelogEarly"
  /\ GetChangelog("changelogEarly", "prompt")
  /\ UNCHANGED <<configVars, vVersion, version, isPreRelease, isLateChangeLog,
                 envVars, grpVars, clientVars>>

\* v.validate() follows the prompt (PcAfterPromptSkipsValidate: it is left out)
PcAfterPromptSkipsValidate == "guard"
PcAfterPrompt == "validate"

\* if (isInteractive && !v.version): the increment list, then the version prompt
VersionPrompt ==
  /\ pc = "prompt"
  /\ IF isInteractive /\ vVersion = NoVersion
     THEN \E inc \in ListAnswers :
            IF inc # ""
            THEN vVersion' = VersionBump(LatestVersion, inc)
            ELSE \E str \in VersionAnswers : vVersion' = ParseVersion(str)
     ELSE vVersion' = vVersion
  /\ Goto(PcAfterPrompt)
  /\ UNCHANGED <<configVars, version, isPreRelease, isLateChangeLog, changelog, envVars,
                 grpVars, histVars, clientVars>>

\* v.validate(); const { version, isPreRelease } = v.details
ValidateVersion ==
  /\ pc = "validate"
  /\ IF IsValid(vVersion)
     THEN /\ version' = vVersion
          /\ isPreRelease' = IsPreReleaseVersion(vVersion)
          /\ Goto("guard")
     ELSE /\ Throw("validate", InvalidVersionError)
          /\ UNCHANGED <<version, isPreRelease>>
  /\ UNCHANGED <<configVars, vVersion, isLateChangeLog, changelog, envVars, grpVars,
                 histVars, clientVars>>

\* if (isInteractive && pkgFiles && options.git.requireCleanWorkingDir)
\*   process.on('SIGINT' / 'exit', () => gitClient.reset(pkgFiles))
ArmGuard ==
  /\ pc = "guard"
  /\ \E pkgFiles \in BOOLEAN, requireCleanWorkingDir \in BOOLEAN :
       guardArmed' = (isInteractive /\ pkgFiles /\ requireCleanWorkingDir)
  /\ Goto("beforeBump")
  /\ UNCHANGED <<configVars, verVars, reverted, cwd, stageDirExists, grpVars,
                 histVars, clientVars>>

\* the SIGINT handler, () => gitClient.reset(pkgFiles): the operator interrupts
\* the run; with a handler registered the process goes on
Interrupt ==
  /\ guardArmed
  /\ pc \notin {"done", "rejected"}
  /\ reverted' = TRUE
  /\ UNCHANGED <<configVars, ctlVars, verVars, guardArmed, cwd, stageDirExists,
                 grpVars, histVars, clientVars>>

\* the exit handler, () => gitClient.reset(pkgFiles): the process exits once
\* the run has settled
Exit ==
  /\ guardArmed
  /\ pc \in {"done", "rejected"}
  /\ reverted' = TRUE
  /\ UNCHANGED <<configVars, ctlVars, verVars, guardArmed, cwd, stageDirExists,
                 grpVars, histVars, clientVars>>

BeforeBump ==
  /\ pc = "beforeBump"
  /\ Hook("beforeBump", "src", "bump")
  /\ UNCHANGED <<configVars, verVars, envVars, grpVars, clientVars>>

\* await s.show(true, () => shell.bump(pkgFiles, version), 'Bump version')
Bump ==
  /\ pc = "bump"
  /\ Perform("bump", "src", "bump", "afterBump")
  /\ UNCHANGED <<configVars, verVars, envVars, grpVars, clientVars>>

AfterBump ==
  /\ pc = "afterBump"
  /\ Hook("afterBump", "src", IF isLateChangeLog THEN "changelogLate" ELSE "beforeStage")
  /\ UNCHANGED <<configVars, verVars, envVars, grpVars, clientVars>>

\* if (isLateChangeLog) changelog = await getChangelog()
ChangelogLate ==
  /\ pc = "changelogLate"
  /\ GetChangelog("changelogLate", "beforeStage")
  /\ UNCHANGED <<configVars, vVersion, version, isPreRelease, isLateChangeLog,
                 envVars, grpVars, clientVars>>

BeforeStage ==
  /\ pc = "beforeStage"
  /\ RunScript("beforeStage", "src", scripts["src"].beforeStage, "stage")
  /\ UNCHANGED <<configVars, verVars, envVars, grpVars, clientVars>>

\* await gitClient.stage(pkgFiles)
Stage ==
  /\ pc = "stage"
  /\ Perform("stage", "src", "stage", "stageDir")
  /\ UNCHANGED <<configVars, verVars, envVars, grpVars, clientVars>>

\* await gitClient.stageDir()
StageDir ==
  /\ pc = "stageDir"
  /\ Perform("stageDir", "src", "stageDir", "status")
  /\ UNCHANGED <<configVars, verVars, envVars, grpVars, clientVars>>

\* the step group that follows the preparations: the primary repo's,
\* await release({ options, gitClient, ghClient, npmClient })
\* (PcAfterPrepareDistFirst: the dist release is entered instead)
PcAfterPrepareDistFirst == "distRelease"
PcAfterPrepare == "commit"

\* const changeSet = await gitClient.status(); then the dist repo is prepared
\* when one is configured, else the release step group starts
Status ==
  /\ pc = "status"
  /\ Perform("status", "src", "status", IF distRepo THEN "clone" ELSE PcAfterPrepare)
  /\ UNCHANGED <<configVars, verVars, envVars, grpVars, clientVars>>


(***************************************************************************)
(* if (options.dist.repo) { clone, copy, pushd, bump, beforeStage, stageDir,*)
(* popd }                                                                  *)
(***************************************************************************)
DistClone ==
  /\ pc = "clone"
  /\ Perform("clone", "dist", "clone", "copy")
  /\ stageDirExists' = IF pc' = "rejected" THEN stageDirExists ELSE TRUE
  /\ UNCHANGED <<configVars, verVars, guardArmed, reverted, cwd, grpVars, clientVars>>

DistCopy ==
  /\ pc = "copy"
  /\ Perform("copy", "dist", "copy", "pushd")
  /\ UNCHANGED <<configVars, verVars, envVars, grpVars, clientVars>>

DistPushd ==
  /\ pc = "pushd"
  /\ \/ cwd' = Append(cwd, "stageDir") /\ Goto("distBump")
     \/ \E e \in StepErrors : cwd' = cwd /\ Throw("pushd", e)
  /\ UNCHANGED <<configVars, verVars, guardArmed, reverted, stageDirExists, grpVars,
                 histVars, clientVars>>

DistBump ==
  /\ pc = "distBump"
  /\ Perform("distBump", "dist", "bump", "distBeforeStage")
  /\ UNCHANGED <<configVars, verVars, envVars, grpVars, clientVars>>

DistBeforeStage ==
  /\ pc = "distBeforeStage"
  /\ RunScript("distBeforeStage", "dist", scripts["dist"].beforeStage, "distStageDir")
  /\ UNCHANGED <<configVars, verVars, envVars, grpVars, clientVars>>

DistStageDir ==
  /\ pc = "distStageDir"
  /\ Perform("distStageDir", "dist", "stageDir", "popd")
  /\ UNCHANGED <<configVars, verVars, envVars, grpVars, clientVars>>

DistPopd ==
  /\ pc = "popd"
  /\ \/ cwd' = SubSeq(cwd, 1, Len(cwd) - 1) /\ Goto(PcAfterPrepare)
     \/ \E e \in StepErrors : cwd' = cwd /\ Throw("popd", e)
  /\ UNCHANGED <<configVars, verVars, guardArmed, reverted, stageDirExists, grpVars,
                 histVars, clientVars>>

(***************************************************************************)
(* const release = async ({ options, gitClient, ghClient, npmClient }) =>  *)
(* the release step group, for the repo grp.                               *)
(***************************************************************************)
\* s.show(git.X, X, ...) / prompt(git.X, context, 'X', X) for commit, tag, push
GitStep(p, next) ==
  /\ pc = p
  /\ \E answer \in Answers :
       /\ IF Runs(gates[grp][p], answer) THEN Perform(p, grp, p, next) ELSE Skip(next)
       /\ declined' = Declined(gates[grp][p], answer)
  /\ UNCHANGED <<configVars, verVars, envVars, grp, completed, clientVars>>

Commit == GitStep("commit", "tag")
\* (TagBeforeCommit: the tag step hands over to the commit step)
TagBeforeCommit == GitStep("tag", "commit")
Tag == GitStep("tag", "push")
Push == GitStep("push", "release")

\* s.show(github.release, release, ...) /
\* prompt(github.release, context, 'release', releaseAndUploadAssets)
Release ==
  /\ pc = "release"
  /\ \E answer \in Answers :
       /\ IF Runs(gates[grp].release, answer)
          THEN /\ GitHubRelease(grp, version, isPreRelease)
               /\ Goto("release_wait")
          ELSE /\ Goto(IF isInteractive THEN "publish" ELSE "assets")
               /\ UNCHANGED clientVars
       /\ declined' = Declined(gates[grp].release, answer)
  /\ UNCHANGED <<configVars, verVars, envVars, grp, completed, histVars>>

\* release() settled. Interactive: (await release()) && (await uploadAssets())
ReleaseReturn ==
  /\ pc = "release_wait"
  /\ ret.st # "none"
  /\ IF ret.st = "rejected" THEN Throw("release", ret.err)
     ELSE IF ~isInteractive THEN Goto("assets")
     ELSE IF ret.val THEN Goto("uploadAssets")
     ELSE Goto("publish")
  /\ Returned
  /\ UNCHANGED <<configVars, verVars, envVars, grpVars, histVars, gh, npmc>>

\* s.show(github.assets, uploadAssets, 'GitHub upload assets') (non-interactive)
Assets ==
  /\ pc = "assets"
  /\ Goto(IF Show(gates[grp].assets) THEN "uploadAssets" ELSE "publish")
  /\ UNCHANGED <<configVars, verVars, envVars, grpVars, histVars, clientVars>>

\* const uploadAssets = () => ghClient.uploadAssets()
UploadAssets ==
  /\ pc = "uploadAssets"
  /\ GitHubUploadAssets(grp)
  /\ Goto("assets_wait")
  /\ ran' = ran \cup {<<grp, "uploadAssets">>}
  /\ UNCHANGED <<configVars, verVars, envVars, grpVars, failedOps, hooks>>

AssetsReturn ==
  /\ pc = "assets_wait"
  /\ ret.st # "none"
  /\ IF ret.st = "rejected" THEN Throw("uploadAssets", ret.err) ELSE Goto("publish")
  /\ Returned
  /\ UNCHANGED <<configVars, verVars, envVars, grpVars, histVars, gh, npmc>>

\* s.show(npm.publish && !npm.private, publish, ...) / prompt(the same, ...):
\* the publish gate stands for npm.publish && !npm.private
\* otpPrompt = task => prompt(true, context, 'otp', task)
\* publish = () => npmClient.publish({ version, isPreRelease, otpPrompt }),
\* where tag and otp default to the client's options
Publish ==
  /\ pc = "publish"
  /\ \E answer \in Answers :
       /\ IF Runs(gates[grp].publish, answer)
          THEN /\ NpmPublish(grp, Undefined, version, isPreRelease, Undefined, TRUE)
               /\ Goto("publish_wait")
          ELSE /\ Goto("afterRelease")
               /\ UNCHANGED clientVars
       /\ declined' = Declined(gates[grp].publish, answer)
  /\ UNCHANGED <<configVars, verVars, envVars, grp, completed, histVars>>

PublishReturn ==
  /\ pc = "publish_wait"
  /\ ret.st # "none"
  /\ IF ret.st = "rejected" THEN Throw("publish", ret.err) ELSE Goto("afterRelease")
  /\ Returned
  /\ UNCHANGED <<configVars, verVars, envVars, grpVars, histVars, gh, npmc>>

\* what follows the step group: the dist release after the primary group when
\* a dist repo is configured, the summary otherwise; popd after the dist group
\* (PcAfterGroupNoDist: the dist release is left out)
PcAfterGroupNoDist(r) ==
  IF r = "dist" THEN "distPopd" ELSE "summary"
PcAfterGroup(r) ==
  IF r = "dist" THEN "distPopd"
  ELSE IF distRepo THEN "distRelease" ELSE "summary"

\* await s.show(scripts.afterRelease, () => run(scripts.afterRelease), ...):
\* scripts is the binding of tasks.js:30, options.scripts, whichever repo the
\* step group runs for
\* (AfterReleaseOfGroup: the command of the options the group was called with)
AfterReleaseOfGroup ==
  /\ pc = "afterRelease"
  /\ RunScript("afterRelease", grp, scripts[grp].afterRelease, PcAfterGroup(grp))
  /\ completed' = IF pc' = "rejected" THEN completed ELSE Append(completed, grp)
  /\ UNCHANGED <<configVars, verVars, envVars, grp, declined, clientVars>>
AfterRelease ==
  /\ pc = "afterRelease"
  /\ RunScript("afterRelease", grp, scripts["src"].afterRelease, PcAfterGroup(grp))
  /\ completed' = IF pc' = "rejected" THEN completed ELSE Append(completed, grp)
  /\ UNCHANGED <<configVars, verVars, envVars, grp, declined, clientVars>>

(***************************************************************************)
(* if (options.dist.repo) { pushd, init, shouldTag, status, release(dist),  *)
(* popd, rm -rf stageDir }                                                 *)
(***************************************************************************)
DistReleasePushd ==
  /\ pc = "distRelease"
  /\ \/ cwd' = Append(cwd, "stageDir") /\ Goto("distInit")
     \/ \E e \in StepErrors : cwd' = cwd /\ Throw("distRelease", e)
  /\ UNCHANGED <<configVars, verVars, guardArmed, reverted, stageDirExists, grpVars,
                 histVars, clientVars>>

\* await gitDistClient.init(); options.dist.git.tag = gitDistClient.shouldTag(gitClient)
DistInit ==
  /\ pc = "distInit"
  /\ \/ \E shouldTag \in BOOLEAN :
          /\ gates' = [gates EXCEPT !["dist"].tag = shouldTag]
          /\ Goto("distStatus")
     \/ \E e \in InitErrors \cup StepErrors :
          /\ gates' = gates
          /\ Throw("distInit", e)
  /\ UNCHANGED <<isInteractive, isDryRun, isCollectMetrics, distRepo, scripts, verVars,
                 envVars, grpVars, histVars, clientVars>>

\* await gitDistClient.status(); then release({ options: options.dist, ... })
DistStatus ==
  /\ pc = "distStatus"
  /\ Perform("distStatus", "dist", "status", "commit")
  /\ grp' = IF pc' = "rejected" THEN grp ELSE "dist"
  /\ UNCHANGED <<configVars, verVars, envVars, completed, declined, clientVars>>

DistReleasePopd ==
  /\ pc = "distPopd"
  /\ \/ cwd' = SubSeq(cwd, 1, Len(cwd) - 1) /\ Goto("rm")
     \/ \E e \in StepErrors : cwd' = cwd /\ Throw("distPopd", e)
  /\ UNCHANGED <<configVars, verVars, guardArmed, reverted, stageDirExists, grpVars,
                 histVars, clientVars>>

\* await run(`!rm -rf ${options.dist.stageDir}`)
RemoveStageDir ==
  /\ pc = "rm"
  /\ Perform("rm", "dist", "rm", "summary")
  /\ stageDirExists' = IF pc' = "rejected" THEN stageDirExists ELSE FALSE
  /\ UNCHANGED <<configVars, verVars, guardArmed, reverted, cwd, grpVars, clientVars>>

\* the release links, config.isCollectMetrics && trackEvent('end'), Done; the
\* promise resolves
Summary ==
  /\ pc = "summary"
  /\ pc' = "done"
  /\ IF isCollectMetrics
     THEN \E delivered \in BOOLEAN :
            events' = events \cup Send({TrackEvent("end")}, delivered)
     ELSE events' = events
  /\ UNCHANGED <<err, failedAt, thrown, logged>>
  /\ UNCHANGED <<configVars, verVars, envVars, grpVars, histVars, clientVars>>

(***************************************************************************)
(* Spec: a whole run, from any configuration of the modes and the gates.   *)
(***************************************************************************)
AllGates == [GateNames -> BOOLEAN]
AllOn == [g \in GateNames |-> TRUE]
GitOnly == [g \in GateNames |-> g \in {"commit", "tag", "push"}]
AssetsOnly == [g \in GateNames |-> g = "assets"]

\* the gates of each repo in a run with a dist repo: all off, all on, git only
\* or assets only
DistGates == {AllOff, AllOn, GitOnly, AssetsOnly}

Init ==
  /\ pc = "init"
  /\ isInteractive \in BOOLEAN
  /\ isDryRun \in BOOLEAN
  /\ isCollectMetrics = FALSE
  /\ scripts = OwnScripts
  /\ distRepo \in BOOLEAN
  /\ IF distRepo
     THEN \E g \in DistGates, d \in DistGates :
            gates = [c \in Repos |-> IF c = "src" THEN g ELSE d]
     ELSE \E g \in AllGates :
            gates = [c \in Repos |-> IF c = "src" THEN g ELSE AllOff]
  /\ InitRun
  /\ InitClients

\* the steps of runTasks but for those of the uploads
RunSteps ==
  \/ GitInit
  \/ ValidateStageDir
  \/ GhValidate
  \/ BeforeStart
  \/ ResolveVersion
  \/ ChangelogEarly
  \/ VersionPrompt
  \/ ValidateVersion
  \/ ArmGuard
  \/ Interrupt
  \/ Exit
  \/ BeforeBump
  \/ Bump
  \/ AfterBump
  \/ ChangelogLate
  \/ BeforeStage
  \/ Stage
  \/ StageDir
  \/ Status
  \/ DistClone
  \/ DistCopy
  \/ DistPushd
  \/ DistBump
  \/ DistBeforeStage
  \/ DistStageDir
  \/ DistPopd
  \/ Commit
  \/ Tag
  \/ Push
  \/ Release
  \/ ReleaseAttempt(RunResponses)
  \/ ReleaseReturn
  \/ Assets
  \/ UploadAssets
  \/ AssetsReturn
  \/ Publish
  \/ PublishRun
  \/ PublishOtpPrompt
  \/ PublishReturn
  \/ AfterRelease
  \/ DistReleasePushd
  \/ DistInit
  \/ DistStatus
  \/ DistReleasePopd
  \/ RemoveStageDir
  \/ Summary

Next ==
  \/ RunSteps
  \/ Globby(0, MaxRunFiles)
  \/ \E f \in 1..MaxRunFiles : UploadAttempt(f, RunResponses)

Spec == Init /\ [][Next]_vars

(***************************************************************************)
(* SpecMetrics: a whole run with metrics collection enabled or disabled,   *)
(* every gate of a repo on or every gate off.                              *)
(***************************************************************************)
MetricsGates == {AllOn, AllOff}

InitMetrics ==
  /\ pc = "init"
  /\ isInteractive \in BOOLEAN
  /\ isDryRun \in BOOLEAN
  /\ isCollectMetrics \in BOOLEAN
  /\ scripts = OwnScripts
  /\ distRepo \in BOOLEAN
  /\ \E g \in MetricsGates, d \in MetricsGates :
       gates = [c \in Repos |-> IF c = "src" THEN g
                                ELSE IF distRepo THEN d ELSE AllOff]
  /\ InitRun
  /\ InitClients

SpecMetrics == InitMetrics /\ [][Next]_vars

(***************************************************************************)
(* SpecHooks: the pipeline with the hook commands of the two configurations *)
(* left open, over the same gate settings as SpecMetrics.                   *)
(***************************************************************************)
InitHooks ==
  /\ pc = "init"
  /\ isInteractive \in BOOLEAN
  /\ isDryRun \in BOOLEAN
  /\ isCollectMetrics = FALSE
  /\ scripts \in ScriptConfigs
  /\ distRepo \in BOOLEAN
  /\ \E g \in MetricsGates, d \in MetricsGates :
       gates = [c \in Repos |-> IF c = "src" THEN g
                                ELSE IF distRepo THEN d ELSE AllOff]
  /\ InitRun
  /\ InitClients

SpecHooks == InitHooks /\ [][Next]_vars

(***************************************************************************)
(* SpecAssets: the pipeline with an assets glob that matches up to         *)
(* MaxFiles files, over the same gate settings as SpecMetrics.             *)
(***************************************************************************)
InitAssets ==
  /\ pc = "init"
  /\ isInteractive \in BOOLEAN
  /\ isDryRun \in BOOLEAN
  /\ isCollectMetrics = FALSE
  /\ scripts = OwnScripts
  /\ distRepo \in BOOLEAN
  /\ \E g \in MetricsGates, d \in MetricsGates :
       gates = [c \in Repos |-> IF c = "src" THEN g
                                ELSE IF distRepo THEN d ELSE AllOff]
  /\ InitRun
  /\ InitClients

NextAssets ==
  \/ RunSteps
  \/ Globby(0, MaxFiles)
  \/ \E f \in 1..MaxFiles : UploadAttempt(f, RunResponses)

SpecAssets == InitAssets /\ [][NextAssets]_vars

(***************************************************************************)
(* Properties.                                                             *)
(***************************************************************************)
HasRun(r, op) == <<r, op>> \in ran
HasFailed(r, op) == <<r, op>> \in failedOps

BumpAndStageOps == {"bump", "stage", "stageDir"}
GroupOps == {"commit", "tag", "push", "createRelease", "uploadAsset", "publish"}
GroupStages == {"commit", "tag", "push", "release", "uploadAssets", "publish"}

\* C1: no file is bumped and nothing is staged, in the primary or the dist
\* repo, before the version has been resolved and v.validate() has passed; a
\* run whose version resolution or validation fails never bumps or stages.
C1_BumpAndStageFollowValidation ==
  /\ (\E r \in Repos, op \in BumpAndStageOps : HasRun(r, op))
       => /\ version # NoVersion
          /\ IsValid(version)
          /\ version = vVersion
  /\ (pc = "rejected" /\ failedAt \in {"resolve", "validate"})
       => ~\E r \in Repos, op \in BumpAndStageOps : HasRun(r, op)

C1_Witness ==
  /\ isInteractive
  /\ err = NoErr
  /\ HasRun("src", "bump") /\ HasRun("src", "stage") /\ HasRun("src", "stageDir")
  /\ HasRun("dist", "bump") /\ HasRun("dist", "stageDir")

\* C2: the dist step group (its commit, tag, push, create-release, uploads,
\* publish and after-release hook) runs only once the primary step group,
\* after-release hook included, has completed and no primary operation failed.
C2_DistGroupFollowsPrimary ==
  (grp = "dist" \/ \E op \in GroupOps : HasRun("dist", op))
    => /\ Len(completed) >= 1
       /\ completed[1] = "src"
       /\ ~\E op \in GroupOps \cup {"hook", "bump", "stage", "stageDir", "status"} :
            HasFailed("src", op)

C2_Witness ==
  /\ pc = "done"
  /\ grp = "dist"
  /\ HasRun("dist", "commit")
  /\ HasRun("dist", "createRelease")
  /\ HasRun("dist", "publish")

PreconditionErrors ==
  { "GitRepoError", "GitRemoteUrlError", "GitCleanWorkingDirError",
    "GitUpstreamError", "DistRepoStageDirError", "GithubTokenError",
    "InvalidVersionError" }
MutatingOps == {"hook"} \cup BumpAndStageOps \cup GroupOps

\* C3, as claimed: when a precondition error is raised no hook command has run,
\* no file is bumped, nothing is staged, committed, tagged or pushed, and no
\* release or publish call has been made.
C3_NothingRanBeforePreconditionError ==
  (pc = "rejected" /\ err.type \in PreconditionErrors)
    => ~\E r \in Repos, op \in MutatingOps : HasRun(r, op)

\* C3, amended: when a precondition error is raised by the checks made before
\* the version is bumped, no file is bumped, nothing is staged, committed,
\* tagged or pushed and no release or publish call has been made; before the
\* repository, stage directory and token errors nothing has run at all, before
\* the invalid version error only the before-start hook and the changelog
\* command of the primary repo may have run. The dist repo's client is
\* initialised only when the dist release starts: a repository error it raises
\* there comes after the primary step group has run to its end, and before
\* any operation of the dist step group.
C3_OnlyHookBeforeInvalidVersion ==
  (pc = "rejected" /\ err.type \in PreconditionErrors)
    => IF failedAt = "distInit"
       THEN /\ completed = <<"src">>
            /\ err \in InitErrors
            /\ ~\E op \in GroupOps : HasRun("dist", op)
       ELSE /\ ~\E r \in Repos, op \in MutatingOps \ {"hook"} : HasRun(r, op)
            /\ err.type # "InvalidVersionError" => ran = {}
            /\ ran \subseteq {<<"src", "hook">>, <<"src", "changelog">>}

C3_Witness ==
  /\ pc = "rejected"
  /\ err = InvalidVersionError
  /\ failedAt = "validate"
  /\ HasRun("src", "hook")

\* the retry operations in flight or settled: createRelease's, the uploads'
RetryOps ==
  {rel.op} \cup {up.ops[f] : f \in DOMAIN up.ops}
           \cup {detached[i].op : i \in DOMAIN detached}
IsFinal(resp) == resp # Ok /\ resp.status \in {400, 401, 404, 422}
IsWord(t) == ~IsNewline(t) /\ t # " "
Words(text) == SelectSeq(text, IsWord)

C4_Bailed(op) ==
  (op.n > 0 /\ IsFinal(op.last))
    => /\ op.st = "rejected"
       /\ op.out.type = "GithubClientError"
       /\ op.out.status = op.last.status
       /\ \A i \in DOMAIN op.out.text : ~IsNewline(op.out.text[i])
       /\ Words(op.out.text) = Words(op.last.text)
       /\ op.n = Len(op.errs) + 1

C4_NoFurtherAttempt ==
  /\ rel.op.st = "rejected" => rel'.op.n \in {0, rel.op.n}
  /\ \A f \in DOMAIN up.ops :
       (up.ops[f].st = "rejected" /\ f \in DOMAIN up'.ops)
         => up'.ops[f].n \in {0, up.ops[f].n}
  /\ (rel.op.st = "pending" /\ rel'.op.st = "rejected") => gh' = gh
  /\ (\E f \in DOMAIN up.ops : up.ops[f].st = "pending"
                                /\ f \in DOMAIN up'.ops
                                /\ up'.ops[f].st = "rejected") => gh' = gh

\* C4: a createRelease or uploadAsset attempt answered with 400, 401, 404 or
\* 422 ends the operation: it is rejected with a GithubClientError carrying the
\* status and the message (line breaks replaced), only retried failures came
\* before it (a first-attempt 422 is the only attempt), no attempt follows,
\* and the client's released flag and urls are left as they were.
C4_NonRetryableAborts ==
  /\ [](\A op \in RetryOps : C4_Bailed(op))
  /\ [][C4_NoFurtherAttempt]_vars

C4_Witness ==
  /\ rel.op.st = "rejected"
  /\ rel.op.n = 1
  /\ rel.op.last.status = 422
  /\ ~gh[rel.client].isReleased

Count(errs, text) == Cardinality({i \in DOMAIN errs : errs[i].text = text})

\* what C5 states of an operation but for the error it fails with
C5_Attempts(op) ==
  /\ op.n <= 3
  /\ op.st = "pending" => op.n < 3
  /\ (op.n > 0 /\ op.last # Ok /\ ~IsFinal(op.last) /\ op.n < 3) => op.st = "pending"
  /\ op.st = "resolved" <=> (op.n > 0 /\ op.last = Ok)
  /\ (op.st = "rejected" /\ ~IsFinal(op.last)) => (op.n = 3 /\ Len(op.errs) = 3)

\* C5, as claimed: a failure with another status is retried, three attempts at
\* most; the operation resolves with the first success and, once three
\* attempts have failed, fails with the last error.
C5_FailsWithLastError ==
  \A op \in RetryOps :
    /\ C5_Attempts(op)
    /\ (op.st = "rejected" /\ ~IsFinal(op.last)) => op.out = op.last

\* C5, amended: a failure with another status is retried, three attempts at
\* most; the operation resolves with the first success and, once three
\* attempts have failed, fails with one of their errors: one whose message
\* was the most frequent among the three, the last error when all differ.
C5_FailsWithMainError ==
  \A op \in RetryOps :
    /\ C5_Attempts(op)
    /\ (op.st = "rejected" /\ ~IsFinal(op.last))
         => /\ \E i \in DOMAIN op.errs : op.out = op.errs[i]
            /\ \A i \in DOMAIN op.errs :
                 Count(op.errs, op.out.text) >= Count(op.errs, op.errs[i].text)
            /\ (\A i \in DOMAIN op.errs : Count(op.errs, op.errs[i].text) = 1)
                 => op.out = op.last

C5_Witness ==
  /\ rel.op.st = "rejected"
  /\ rel.op.n = 3
  /\ rel.op.out # rel.op.last

\* C6: a publish that fails with a one-time-passcode error goes to the prompt
\* when the client is interactive and has one, and each prompt is followed by
\* one publish call with the entered code; otherwise the publish is rejected
\* with that error at once and the prompt is never used. A failure of another
\* kind is rejected with that error, in either mode, without a prompt.
C6_OtpFlow ==
  /\ pub.st = "prompt"
       => (isInteractive /\ pub.otpPrompt /\ IsOtpError(pub.last))
  /\ pub.st = "rejected"
       => /\ ret = Rejected(pub.last)
          /\ pub.last \in NpmErrors
          /\ ~(IsOtpError(pub.last) /\ isInteractive /\ pub.otpPrompt)
  /\ (pub.last \in NpmErrors /\ ~IsOtpError(pub.last)) => pub.st = "rejected"
  /\ (~isInteractive \/ ~pub.otpPrompt) => pub.prompts = 0
  /\ pub.st = "running" => pub.calls = pub.prompts
  /\ pub.st \in {"prompt", "resolved", "rejected"} => pub.calls = pub.prompts + 1
  /\ (pub.st = "running" /\ pub.prompts > 0)
       => (pub.otp \in OtpCodes /\ IsOtpError(pub.last))

C6_Witness ==
  /\ isInteractive
  /\ pub.st = "resolved"
  /\ pub.prompts = 1
  /\ pub.calls = 2
  /\ pub.otp \in OtpCodes

\* the tag C7 names: the explicit tag when one is given, else the first
\* pre-release identifier of a pre-release version, else the default tag
ClaimedTag(tag, ver, pre) ==
  IF tag # Undefined THEN tag
  ELSE IF pre /\ ver # NoVersion /\ Prerelease(ver) # <<>>
       THEN Prerelease(ver)[1]
       ELSE DEFAULT_TAG

\* C7, as claimed: publish resolves the tag to the explicit tag whenever one is
\* given, else to the first pre-release identifier of the version when the
\* release is a pre-release, else to 'latest'.
C7_ExplicitTagOverrides ==
  pub.st # "idle" => pub.resolvedTag = ClaimedTag(pub.tag, pub.version, pub.pre)

\* C8: a repo whose step-group gates are all false has none of commit, tag,
\* push, create-release, upload or publish executed, in either mode; no
\* confirmation is asked for it, its step group does not fail in one of these
\* sub-steps, and the run can go on to the summary.
C8_AllGatesOffRunsNothing ==
  /\ \A c \in Repos :
       gates[c] = AllOff
         => /\ ~\E op \in GroupOps : HasRun(c, op)
            /\ ~(pc = "rejected" /\ grp = c /\ failedAt \in GroupStages)
            /\ ~(grp = c /\ pc \in {"release_wait", "uploadAssets", "assets_wait",
                                    "publish_wait"})
  /\ (\A c \in Repos : gates[c] = AllOff) => declined = 0

C8_Witness ==
  /\ pc = "done"
  /\ isInteractive
  /\ distRepo
  /\ \A c \in Repos : gates[c] = AllOff
  /\ completed = <<"src", "dist">>

C9_SameVersion ==
  /\ pc = "done" => completed = (IF distRepo THEN <<"src", "dist">> ELSE <<"src">>)
  /\ completed \in {<<>>, <<"src">>, <<"src", "dist">>}
  /\ grp = "dist" => distRepo
  /\ rel.op.st # "idle"
       => (rel.client = grp /\ rel.version = version /\ rel.pre = isPreRelease)
  /\ pub.st # "idle"
       => (pub.client = grp /\ pub.version = version /\ pub.pre = isPreRelease)
  /\ \A c \in Repos : gh[c].isReleased => gh[c].version = version

C9_VersionKept ==
  version # NoVersion
    => (version' = version /\ isPreRelease' = isPreRelease /\ vVersion' = vVersion)

\* C9: a run that completes has run the release step group once without a dist
\* repo and twice with one, for the primary clients first and the dist clients
\* second; every create-release and publish call of either group is given the
\* resolved version and pre-release flag, which never change once validated.
C9_GroupOncePerRepo ==
  /\ []C9_SameVersion
  /\ [][C9_VersionKept]_vars

C9_Witness ==
  /\ pc = "done"
  /\ distRepo
  /\ isPreRelease
  /\ \A c \in Repos : gh[c].isReleased /\ npmc[c].isPublished

\* C10, as claimed: with the release gate and the publish gate disabled no
\* createRelease, no uploadReleaseAsset and no publish command is ever issued,
\* whatever the other options, and the step group does not fail in them.
C10_NoCallsWithoutReleaseAndPublish ==
  (\A c \in Repos : ~gates[c].release /\ ~gates[c].publish)
    => /\ \A c \in Repos : ~\E op \in {"createRelease", "uploadAsset", "publish"} :
              HasRun(c, op)
       /\ failedAt \notin {"release", "uploadAssets", "publish"}

\* C11, as claimed: in dry-run no createRelease and no uploadReleaseAsset request
\* is issued and both operations resolve, and once a dry-run release() has
\* resolved for a client that client is marked as released (isReleased), so
\* that the summary prints its release link as after a real release.
C11_DryRunMarksReleased ==
  /\ isDryRun => \A c \in Repos : ~HasRun(c, "createRelease") /\ ~HasRun(c, "uploadAsset")
  /\ isDryRun => failedAt \notin {"release", "uploadAssets"}
  /\ (awaiting.op = "release" /\ ret.st = "resolved") => gh[awaiting.client].isReleased

\* what C12 states of every state: the urls are recorded exactly when the
\* client is released, and a released client has had a createRelease request
C12_UrlsFollowFlag ==
  \A c \in Repos :
    IF gh[c].isReleased
    THEN /\ HasRun(c, "createRelease")
         /\ gh[c].releaseUrl = ReleaseData(c, gh[c].version).html_url
         /\ gh[c].uploadUrl = ReleaseData(c, gh[c].version).upload_url
    ELSE gh[c].releaseUrl = NoUrl /\ gh[c].uploadUrl = NoUrl

\* what C12 states of every step: a released client's record is left as it
\* is; a record changes only in the step in which a createRelease request of
\* the client succeeds, which is the step from unset to released; and an
\* upload request issued for a released client carries the recorded uploadUrl
C12_FlagStep ==
  /\ \A c \in Repos :
       /\ gh[c].isReleased => gh'[c] = gh[c]
       /\ gh'[c] # gh[c] =>
            /\ ~gh[c].isReleased /\ gh'[c].isReleased
            /\ rel.client = c /\ rel.op.st = "pending" /\ rel'.op.st = "resolved"
  /\ \A f \in DOMAIN up.ops :
       (f \in DOMAIN up'.ops /\ up'.ops[f].n = up.ops[f].n + 1
          /\ gh[up.client].isReleased)
         => up.url = gh[up.client].uploadUrl
  /\ (detached' # detached /\ awaiting' = awaiting)
       => \E i \in DOMAIN detached :
            /\ \/ detached' = Remove(detached, i)
               \/ /\ DOMAIN detached' = DOMAIN detached
                  /\ detached'[i].op.n = detached[i].op.n + 1
            /\ gh[detached[i].client].isReleased
                 => detached[i].url = gh[detached[i].client].uploadUrl

\* C12, as claimed: per client instance, over any sequence of release() calls,
\* attempts and retries, isReleased goes from unset to true at most once and
\* is never reset; it is true only after a createRelease request of that
\* client succeeded; releaseUrl and uploadUrl are written in the step of that
\* transition and in no other; every upload request issued afterwards carries
\* the recorded uploadUrl.
C12_ReleasedOnce == []C12_UrlsFollowFlag /\ [][C12_FlagStep]_vars

\* C13: validate() refuses exactly a requested release whose token variable is
\* absent. When the run is rejected with GithubTokenError a release was
\* requested for the primary or the dist repo, the error comes from the token
\* check, and nothing has been done yet: no request, no hook, no bump, stage,
\* commit, tag or push. When no release is requested the token check never
\* fails, whatever the environment holds.
C13_TokenErrorComesFirst ==
  /\ \A release \in BOOLEAN, hasToken \in BOOLEAN :
       (GitHubValidate(release, hasToken) = GithubTokenError) <=> (release /\ ~hasToken)
  /\ err = GithubTokenError =>
       /\ failedAt = "ghValidate"
       /\ \E c \in Repos : gates[c].release
       /\ ran = {}
       /\ awaiting = NoCall /\ rel = RelIdle /\ up = UpIdle /\ pub = PubIdle
       /\ detached = <<>>
       /\ ~guardArmed
  /\ failedAt = "ghValidate" => err = GithubTokenError

C13_TokenCheckStep ==
  (pc = "ghValidate" /\ \A c \in Repos : ~gates[c].release) => pc' # "rejected"

C13_MissingToken == []C13_TokenErrorComesFirst /\ [][C13_TokenCheckStep]_vars

C13_Witness ==
  /\ pc = "rejected"
  /\ err = GithubTokenError
  /\ ~gates["src"].release
  /\ gates["dist"].release

\* the stages of a run in the order the claim gives them, each with the
\* positions of the pipeline that belong to it
C14_GroupOrder ==
  <<"commit", "tag", "push", "release", "release_wait", "assets", "uploadAssets",
    "assets_wait", "publish", "publish_wait", "afterRelease">>
C14_Order ==
  <<"init", "validateStageDir", "ghValidate", "beforeStart", "resolve",
    "changelogEarly", "prompt", "validate", "guard", "beforeBump", "bump",
    "afterBump", "changelogLate", "beforeStage", "stage", "stageDir", "status",
    "clone", "copy", "pushd", "distBump", "distBeforeStage", "distStageDir", "popd">>
    \o C14_GroupOrder
    \o <<"distRelease", "distInit", "distStatus">>
    \o C14_GroupOrder
    \o <<"distPopd", "rm", "summary", "done", "rejected">>

\* the place of position p in that order: the group's positions occur twice,
\* the second time for the dist repo
C14_Rank(p, r) ==
  LET at == {i \in 1..Len(C14_Order) : C14_Order[i] = p}
  IN IF r = "dist"
     THEN CHOOSE i \in at : \A j \in at : j <= i
     ELSE CHOOSE i \in at : \A j \in at : i <= j

C14_Forward ==
  /\ pc' # pc => C14_Rank(pc', grp') > C14_Rank(pc, grp)
  /\ grp' # grp => pc' # pc

\* C14: the stages of a run are executed in strict forward order and none is
\* repeated: repository validation, before-start hook, version resolution,
\* version validation, before-bump hook, bump, after-bump hook, before-stage
\* hook, stage files, stage directory, changeset, the dist preparation when a
\* dist repo is configured, the primary step group, the dist release when a
\* dist repo is configured, summary; inside each group commit, tag, push,
\* create-release, upload-assets, publish, after-release hook.
C14_StrictOrder ==
  /\ [](\E i \in 1..Len(C14_Order) : C14_Order[i] = pc)
  /\ [](grp = "dist" \/ pc \in {"clone", "copy", "pushd", "distBump", "distBeforeStage",
                                "distStageDir", "popd", "distRelease", "distInit",
                                "distStatus", "distPopd", "rm"} => distRepo)
  /\ [][C14_Forward]_vars

C14_Witness ==
  /\ pc = "done"
  /\ distRepo
  /\ \A c \in Repos : \A op \in {"commit", "tag", "push", "createRelease", "uploadAsset",
                                 "publish", "hook"} : HasRun(c, op)

\* C15, as claimed: once a step has failed no later step is executed (only the
\* uploads already in flight beside a failed upload go on), the run is
\* rejected with the very error the step threw, that error has been logged
\* exactly once, and neither the 'end' event nor the summary is ever emitted.
C15_Rejected ==
  pc = "rejected" =>
    /\ thrown # NoErr
    /\ err = thrown
    /\ logged = 1
    /\ TrackEvent("end") \notin events

C15_NothingAfterFailure ==
  pc = "rejected" =>
    /\ pc' = "rejected"
    /\ <<err, failedAt, thrown, logged, events>>' = <<err, failedAt, thrown, logged, events>>
    /\ ran' \subseteq ran \cup {<<c, "uploadAsset">> : c \in Repos}
    /\ UNCHANGED <<gh, npmc, completed, cwd>>

C15_FailureStopsRun == []C15_Rejected /\ [][C15_NothingAfterFailure]_vars

\* C16, as claimed: metrics reporting never changes the outcome of a run. With
\* metrics enabled as with metrics disabled, and whether an event can be built
\* and sent or not, a run whose step failed is rejected with that step's own
\* error, which the catch has logged, and a run that completed saw no error;
\* events are emitted only when metrics are enabled.
C16_MetricsNeverChangeOutcome ==
  /\ pc = "rejected" => err = thrown /\ logged = 1
  /\ pc = "done" => err = NoErr /\ thrown = NoErr /\ logged = 0
  /\ ~isCollectMetrics => events = {}

\* C17, as claimed: in interactive mode, when the resolution chose no version,
\* the increment menu and then the literal-version prompt are repeated until a
\* valid version is set, so that the validation that follows the prompt finds
\* a valid version and never fails because of an empty or invalid answer.
C17_PromptUntilValid ==
  /\ (isInteractive /\ pc = "validate") => IsValid(vVersion)
  /\ isInteractive => failedAt # "validate"

\* C18, as claimed: the interrupt guard is registered only in interactive mode,
\* and its revert, gitClient.reset(pkgFiles), fires only while the files are
\* bumped and not yet committed: never before the bump, never once the commit
\* step has been gone through, whether it committed or was gated off or
\* declined, and never once the run has completed.
C18_RevertFires ==
  reverted' # reverted =>
    /\ guardArmed /\ isInteractive
    /\ HasRun("src", "bump") /\ ~HasFailed("src", "bump")
    /\ ~HasRun("src", "commit")
    /\ C14_Rank(pc, grp) <= C14_Rank("commit", "src")

C18_RevertOnlyWhileBumped == [](guardArmed => isInteractive) /\ [][C18_RevertFires]_vars

\* the requests one retry operation may make: the first and its retries
C19_RetryBounded ==
  \A op \in RetryOps :
    /\ op.n <= 3
    /\ op.st = "pending" => op.n < 3
    /\ op.st \in {"resolved", "rejected"} => op.n >= 1

\* C19, as claimed: create-release and each upload end after at most three
\* attempts, and a publish call ends after a bounded number of attempts even
\* when the registry rejects every code and the operator keeps entering codes:
\* once MaxOtpPrompts codes have been entered the call has ended and asks for
\* no further one.
C19_PublishBounded ==
  /\ C19_RetryBounded
  /\ pub.prompts = MaxOtpPrompts => pub.st # "prompt"

\* C19, amended: create-release and each upload end after at most three
\* attempts. A publish call makes one attempt and one more for every code the
\* operator enters; it asks for a code only after a one-time-passcode failure
\* in interactive mode, makes a single attempt otherwise, and nothing but the
\* operator bounds the number of its attempts: after every rejected code it
\* asks again.
C19_PublishOnePerCode ==
  /\ C19_RetryBounded
  /\ pub.calls <= pub.prompts + 1
  /\ pub.st \in {"resolved", "rejected"} => pub.calls = pub.prompts + 1
  /\ ~isInteractive => pub.calls <= 1
  /\ (pub.calls > pub.prompts /\ pub.last # Ok /\ IsOtpError(pub.last)
        /\ isInteractive /\ pub.otpPrompt) => pub.st = "prompt"

C19_Witness ==
  /\ pub.st = "prompt"
  /\ pub.prompts = MaxOtpPrompts
  /\ pub.calls = MaxOtpPrompts + 1
  /\ pub.otp \in OtpCodes

\* C20, as claimed: in both modes the uploads of a client are issued only
\* after a createRelease of that client succeeded in the same step group, and
\* before its publish; never when the release was gated off, declined or
\* failed; and every upload request carries the uploadUrl recorded for the
\* client.
C20_UploadFollowsRelease ==
  /\ \A c \in Repos :
       HasRun(c, "uploadAsset")
         => /\ gates[c].release
            /\ HasRun(c, "createRelease") /\ ~HasFailed(c, "createRelease")
            /\ gh[c].isReleased
  /\ up.ops # <<>>
       => /\ up.url # NoUrl
          /\ up.url = gh[up.client].uploadUrl
          /\ ~HasRun(up.client, "publish")

\* what C21 states of every state of a run
C21_OnePoint ==
  /\ pc = "changelogEarly"
       => ~isLateChangeLog /\ ~HasRun("src", "changelog") /\ ~HasRun("src", "bump")
            /\ version = NoVersion
  /\ pc = "changelogLate"
       => isLateChangeLog /\ ~HasRun("src", "changelog") /\ HasRun("src", "bump")
            /\ ~HasRun("src", "stage")
  /\ (changelog # Undefined) <=> (HasRun("src", "changelog") /\ ~HasFailed("src", "changelog"))
  /\ pc = "done" => changelog \in Changelogs
  /\ failedAt \in {"changelogEarly", "changelogLate"} => HasFailed("src", "changelog")
  /\ (pc = "bump" /\ ~isLateChangeLog) => changelog # Undefined
  /\ (pc = "beforeStage") => changelog # Undefined

\* and of every step: the changelog is extracted at one of the two points, and
\* only while none has been extracted; an empty one lets the run go on
C21_ExtractStep ==
  /\ (changelog' # changelog \/ HasRun("src", "changelog")' # HasRun("src", "changelog"))
       => /\ pc = (IF isLateChangeLog THEN "changelogLate" ELSE "changelogEarly")
          /\ changelog = Undefined
  /\ (changelog' # changelog /\ changelog' = "") => pc' # "rejected"

\* C21: the changelog is extracted exactly once in a run that completes, at
\* one of two points chosen by isLateChangeLog: before the version prompt and
\* the bump when the increment is no recommendation placeholder, else after the
\* bump and the after-bump hook and before the before-stage hook; never at
\* both points nor at neither; an empty changelog does not fail the run.
C21_ChangelogOnce == []C21_OnePoint /\ [][C21_ExtractStep]_vars

C21_Witness ==
  /\ pc = "done"
  /\ isLateChangeLog
  /\ changelog = ""

\* C22, as claimed: when a dist repo is configured and the clone has created
\* its staging directory, the directory is gone when the run has ended, after
\* a completed dist step group as after a failure of the dist preparation, of
\* the primary step group or of the dist step group.
C22_StageDirRemovedAtEnd ==
  /\ stageDirExists => distRepo /\ HasRun("dist", "clone") /\ ~HasFailed("dist", "clone")
  /\ pc \in {"done", "rejected"} => ~stageDirExists

\* the uploadAssets call being awaited has got past its glob
C23_Started == awaiting = Call("uploadAssets", up.client) /\ ~up.glob

\* one upload per matched file, as claimed
C23_OnePerFile == C23_Started => Len(up.ops) = up.files

\* one upload per matched file, amended: fewer only when fs.statSync threw
\* for a file, and then the call is rejected with that error
C23_OnePerFileUnlessStatThrows ==
  C23_Started
    => /\ Len(up.ops) <= up.files
       /\ Len(up.ops) < up.files => ret = Rejected(StatError)

\* what C23 states of the uploads in every state: the attempts of each, when
\* the call resolves and rejects, and what this means for publish
C23_AllOrNothing ==
  /\ \A f \in DOMAIN up.ops :
       /\ up.ops[f].n <= 3
       /\ up.ops[f].st = "pending" => up.ops[f].n < 3
       /\ up.ops[f].st \in {"resolved", "rejected"} => up.ops[f].n >= 1
  /\ \A i \in DOMAIN detached :
       detached[i].op.st = "pending" /\ detached[i].op.n < 3
  /\ C23_Started
       => /\ ret.st = "resolved"
               => /\ Len(up.ops) = up.files
                  /\ \A f \in DOMAIN up.ops : up.ops[f].st = "resolved"
          /\ (\E f \in DOMAIN up.ops : up.ops[f].st = "rejected")
               => ret.st = "rejected"
  /\ \A c \in Repos :
       /\ HasFailed(c, "uploadAsset") => ~HasRun(c, "publish")
       /\ (failedAt = "uploadAssets" /\ grp = c) => ~HasRun(c, "publish")
       /\ (HasRun(c, "publish") /\ HasRun(c, "uploadAssets"))
            => \A i \in DOMAIN detached : detached[i].client # c

\* what the amended C23 adds: a rejected call has an upload that failed for
\* good and carries its error, or a file whose size could not be read, or a
\* glob that was rejected before any upload started
C23_RejectedBecause ==
  (C23_Started /\ ret.st = "rejected")
    => \/ \E f \in DOMAIN up.ops :
            up.ops[f].st = "rejected" /\ ret.err = up.ops[f].out
       \/ ret.err = StatError /\ Len(up.ops) < up.files
       \/ ret.err = GlobbyError /\ up.files = 0 /\ up.ops = <<>>

\* what C23 states of every step: the uploads a call starts are all pending
\* with no attempt made, and a request of one upload counts against that
\* upload alone, for the uploads of the call awaited and for those an earlier
\* call left in flight
C23_OwnBudget ==
  /\ (up.ops = <<>> /\ up'.ops # <<>>)
       => \A f \in DOMAIN up'.ops : up'.ops[f] = StartOp
  /\ (up.ops # <<>> /\ up'.ops # <<>>)
       => /\ DOMAIN up'.ops = DOMAIN up.ops
          /\ \A f \in DOMAIN up.ops :
               \/ up'.ops[f] = up.ops[f]
               \/ /\ up.ops[f].st = "pending"
                  /\ up'.ops[f].n = up.ops[f].n + 1
                  /\ \A g \in DOMAIN up.ops \ {f} : up'.ops[g] = up.ops[g]
                  /\ detached' = detached
  /\ (detached' # detached /\ awaiting' = awaiting)
       => /\ up' = up
          /\ \E i \in DOMAIN detached :
               \/ detached' = Remove(detached, i)
               \/ detached' =
                    [detached EXCEPT ![i].op = RetryAttempt(@, detached'[i].op.last,
                                                            UploadRetries)]

\* C23, as claimed: upload-assets starts one upload per matched file and the
\* uploads proceed in any order; each upload makes at most three attempts,
\* counted for that upload alone; the call resolves only once every file's
\* upload has succeeded and rejects when one upload has failed for good, so
\* the pipeline never goes on to publish after a failed asset.
C23_UploadPerMatchedFile ==
  /\ [](C23_OnePerFile /\ C23_AllOrNothing)
  /\ [][C23_OwnBudget]_vars

\* C23, amended: upload-assets starts one upload per matched file, one file
\* after the other, unless reading a file's size throws: then no upload starts
\* for that file or those after it and the call is rejected with that error,
\* the uploads already started going on. The uploads proceed in any order;
\* each makes at most three attempts, counted for that upload alone; the call
\* resolves only once every matched file's upload has succeeded; it rejects as
\* soon as one upload has failed for good, with that upload's error, and
\* otherwise only for an unreadable file or a rejected glob; the pipeline
\* never goes on to publish after a call that was rejected or an asset that
\* failed.
C23_UploadsAllOrNothing ==
  /\ [](C23_OnePerFileUnlessStatThrows /\ C23_AllOrNothing /\ C23_RejectedBecause)
  /\ [][C23_OwnBudget]_vars

\* two uploads of one call in a run that is to publish: the first succeeded
\* at once, the second used all three attempts of its own and failed, and the
\* call is rejected
C23_Witness ==
  /\ pc = "assets_wait"
  /\ gates[grp].publish
  /\ awaiting = Call("uploadAssets", grp)
  /\ up.files = 2
  /\ DOMAIN up.ops = {1, 2}
  /\ up.ops[1].st = "resolved" /\ up.ops[1].n = 1
  /\ up.ops[2].st = "rejected" /\ up.ops[2].n = 3
  /\ ret.st = "rejected"

\* the number of times command cmd was handed to run() while repo r was at work
C24_Runs(r, cmd) == Cardinality({i \in DOMAIN hooks : hooks[i] = <<r, cmd>>})

\* the step group of repo r has gone through its sub-steps and reached the
\* after-release hook's s.show
C24_ReachedHook(r) ==
  \/ \E i \in DOMAIN completed : completed[i] = r
  \/ grp = r /\ pc = "rejected" /\ failedAt = "afterRelease"

\* C24: the after-release hook runs exactly once in every step-group
\* invocation that gets through its sub-steps without error and in no other,
\* and the command it runs is the primary configuration's scripts.afterRelease
\* in the primary and in the dist invocation alike (nothing runs when the
\* primary configuration has none); the dist configuration's own
\* scripts.afterRelease is never run, while the before-stage hook of dist
\* prepare runs the dist configuration's own scripts.beforeStage.
C24_AfterReleaseOfPrimary ==
  /\ \A r \in Repos :
       C24_Runs(r, scripts["src"].afterRelease) =
         IF scripts["src"].afterRelease # Undefined /\ C24_ReachedHook(r) THEN 1 ELSE 0
  /\ \A i \in DOMAIN hooks :
       /\ hooks[i][2] # Undefined
       /\ hooks[i][2] # OwnScripts["dist"].afterRelease
       /\ hooks[i][1] = "dist"
            => hooks[i][2] \in {scripts["dist"].beforeStage, scripts["src"].afterRelease}
       /\ hooks[i][1] = "src"
            => hooks[i][2] \in {scripts["src"].beforeStage, scripts["src"].afterRelease}
  /\ HasRun("dist", "stageDir")
       => C24_Runs("dist", scripts["dist"].beforeStage) =
            IF scripts["dist"].beforeStage # Undefined THEN 1 ELSE 0

\* a run with a dist repo has ended, both configurations hold commands of
\* their own, and the primary after-release command has run once for each repo
C24_Witness ==
  /\ pc = "done"
  /\ completed = <<"src", "dist">>
  /\ scripts = OwnScripts
  /\ hooks = << <<"src", "npm run build">>, <<"dist", "npm run build:dist">>,
               <<"src", "npm run notify">>, <<"dist", "npm run notify">> >>

\* C25, as claimed: pushd and popd are balanced: the primary repo's stage,
\* commit, tag and push run with the directory stack empty, every operation
\* of the dist step group runs inside the staging directory, the staging
\* directory is removed only after the pop, and when the run has ended, with
\* success or with a failure raised between a push and its pop, the current
\* directory is the one the run started in.
C25_DirectoryStackBalanced ==
  /\ Len(cwd) <= 1
  /\ (pc \in {"stage", "stageDir"}
        \/ (grp = "src" /\ pc \in {"commit", "tag", "push"})) => cwd = <<>>
  /\ (grp = "dist" /\ pc \in {"commit", "tag", "push", "release", "release_wait",
                                "assets", "uploadAssets", "assets_wait", "publish",
                                "publish_wait", "afterRelease"})
       => cwd = <<"stageDir">>
  /\ pc = "rm" => cwd = <<>>
  /\ ~stageDirExists => cwd = <<>>
  /\ pc \in {"done", "rejected"} => cwd = <<>>

\* the operations of a step group that ran to its end in non-interactive mode:
\* each sub-step of tasks.js:158-163 runs when its gate is set; createRelease
\* is requested outside dry-run only
C26_NonInteractiveRuns(c, op) ==
  CASE op = "commit" -> Show(gates[c].commit)
    [] op = "tag" -> Show(gates[c].tag)
    [] op = "push" -> Show(gates[c].push)
    [] op = "createRelease" -> Show(gates[c].release) /\ ~isDryRun
    [] op = "uploadAssets" -> Show(gates[c].assets)
    [] op = "publish" -> Show(gates[c].publish)

\* C26, as claimed: whatever the gates and dry-run, a step group that ran to
\* its end with the operator confirming every sub-step offered has performed
\* exactly the operations the non-interactive step group performs under the
\* same configuration (commit, tag, push, create-release, upload-assets,
\* publish, after-release hook); in particular upload-assets has been invoked
\* in the one mode if and only if in the other.
C26_InteractiveMatchesNonInteractive ==
  \A c \in Repos :
    ((\E i \in DOMAIN completed : completed[i] = c) /\ declined = 0)
      => /\ \A op \in {"commit", "tag", "push", "createRelease", "uploadAssets",
                        "publish"} :
              HasRun(c, op) <=> C26_NonInteractiveRuns(c, op)
         /\ HasRun(c, "uploadAsset") => HasRun(c, "uploadAssets") /\ ~isDryRun
         /\ <<c, scripts["src"].afterRelease>> \in {hooks[i] : i \in DOMAIN hooks}

====
